---------------------------- MODULE Spec2Model ----------------------------
(***************************************************************************)
(* approx_entropy: the sampling strategies (Bootstrap, FixedPartition) as  *)
(* state machines.  Every handler of the source is an operator that maps   *)
(* the receiver and the arguments to the new receiver and the returned     *)
(* value; the actions apply the handlers to inputs drawn from small sets.  *)
(*                                                                         *)
(* usize arithmetic keeps its width: WordBits stands for usize::BITS.  An  *)
(* overflowing +, * or a shift by WordBits or more panics when the crate   *)
(* is built with overflow checks (debug profile) and wraps otherwise       *)
(* (release profile); the profile is chosen once, in Init.                 *)
(***************************************************************************)
EXTENDS Integers, Sequences, FiniteSets, TLC

VARIABLES
    overflow_checks,  \* build profile: TRUE = debug (panic), FALSE = release (wrap)
    target,           \* which strategy this run of the program exercises
    live,             \* TRUE once a constructor has returned Ok
    bootstrap,        \* the Bootstrap instance: num_groups, degree, unnorm_distr
    fixed,            \* the FixedPartition instance
    before,           \* the instance as it was when the last call was made
    call,             \* the last call: its name and its arguments
    result,           \* what the last call returned ("Ok", an error name, "Panic")
    output,           \* the vector the last call returned, if it returns one
    naive,            \* the NaiveEstimator instance: unnorm_distr
    thread_rng,       \* the state of the generator of the thread (rand::thread_rng())
    exact_pivot,      \* whether a pivot that is zero in exact arithmetic is 0.0 in f64
    estimators,       \* the estimator instances: their kind and their sampling method
    slot,             \* the estimator the last call was made on
    given,            \* per estimator, the strategy it was last handed, and by which call
    runs,             \* per estimator, the entropy() calls made since then
    returned          \* per estimator, what its last entropy() call returned

\* the state of the estimators
estimation == <<thread_rng, exact_pivot, estimators, slot, given, runs, returned>>

vars == <<overflow_checks, target, live, bootstrap, fixed, before, call, result, output,
          naive, estimation>>

-----------------------------------------------------------------------------
(* Bounds of the model *)

WordBits == 5
MaxHistLen == 2
MaxDegree == 2

Modulus == 2 ^ WordBits
MaxWord == Modulus - 1
\* one more than the word width, so that every shift amount up to WordBits occurs
MaxGroups == WordBits + 1
\* half of the word's range: two of them overflow a usize
HalfWord == 2 ^ (WordBits - 1)

-----------------------------------------------------------------------------
(* usize arithmetic *)

\* The value of an expression whose evaluation panicked.
Panic == 0 - 1
PanicVec == <<Panic>>

\* a + b on usize
Add(a, b) ==
    IF a = Panic \/ b = Panic THEN Panic
    ELSE IF a + b > MaxWord
         THEN (IF overflow_checks THEN Panic ELSE (a + b) % Modulus)
         ELSE a + b

\* a * b on usize
Mul(a, b) ==
    IF a = Panic \/ b = Panic THEN Panic
    ELSE IF a * b > MaxWord
         THEN (IF overflow_checks THEN Panic ELSE (a * b) % Modulus)
         ELSE a * b

\* a << n on usize: the bits shifted out are dropped; a shift amount of
\* WordBits or more panics (debug) or is masked to n % WordBits (release)
Shl(a, n) ==
    IF a = Panic \/ n = Panic THEN Panic
    ELSE IF n >= WordBits
         THEN (IF overflow_checks THEN Panic
               ELSE (a * 2 ^ (n % WordBits)) % Modulus)
         ELSE (a * 2 ^ n) % Modulus

\* a >> n on usize
Shr(a, n) ==
    IF a = Panic \/ n = Panic THEN Panic
    ELSE IF n >= WordBits
         THEN (IF overflow_checks THEN Panic ELSE a \div 2 ^ (n % WordBits))
         ELSE a \div 2 ^ n

\* iter().sum() on usize
RECURSIVE IterSum(_)
IterSum(s) ==
    IF s = <<>> THEN 0 ELSE Add(IterSum(SubSeq(s, 1, Len(s) - 1)), s[Len(s)])

\* The mathematical sum of a sequence of naturals (no width).
RECURSIVE TrueSum(_)
TrueSum(s) == IF s = <<>> THEN 0 ELSE s[1] + TrueSum(Tail(s))

-----------------------------------------------------------------------------
(* Inputs *)

SeqsUpTo(S, n) == UNION {[1..k -> S] : k \in 0..n}

\* the histogram of the tests of bootstrap.rs
TestHist == <<1, 2, 3, 4, 5, 6>>
Counts == {0, 1, MaxWord}
\* every short histogram over Counts, and some of total mass 4, 8, 16 and 21
Hists == SeqsUpTo(Counts, MaxHistLen) \cup {<<2, 2>>, <<8>>, <<8, 8>>, TestHist}
Groups == 0..MaxGroups
Degrees == 0..MaxDegree

NoCall == [op |-> "none", n |-> 0, d |-> 0, distr |-> <<>>, sizes |-> <<>>, reps |-> <<>>]
Call(op, n, d, distr, sizes, reps) ==
    [op |-> op, n |-> n, d |-> d, distr |-> distr, sizes |-> sizes, reps |-> reps]

NoBootstrap == [num_groups |-> 0, degree |-> 0, unnorm_distr |-> <<>>]
NoFixed == [samples |-> <<>>, size_subsamples |-> <<>>, samples_rep |-> <<>>, degree |-> 0]
NoNaive == [unnorm_distr |-> <<>>]

\* F applied to the value of v, v being evaluated once
Once(v, F(_)) == CHOOSE r \in {F(w) : w \in {v}} : TRUE

\* the vector of the entries f[1], .., f[n], each evaluated once
Vector(f, n) == SubSeq(f, 1, n)

\* the estimators of a program, in the order it builds them
Slots == {1, 2}

NoRng == [kind |-> "none", state |-> 0]
NoMethod == [type |-> "none", self |-> NoBootstrap, rng |-> NoRng]
NoEstimator == [kind |-> "none", sampling_method |-> NoMethod]
NoGiven == [by |-> "none", method |-> NoMethod]
NoReturn == [res |-> "none", value |-> <<>>, out |-> <<>>]

\* a program that builds no estimator
NoEstimation ==
    /\ thread_rng = 0
    /\ exact_pivot = TRUE
    /\ estimators = [i \in Slots |-> NoEstimator]
    /\ slot = 0
    /\ given = [i \in Slots |-> NoGiven]
    /\ runs = [i \in Slots |-> 0]
    /\ returned = [i \in Slots |-> NoReturn]

-----------------------------------------------------------------------------
(* f64 values *)

(***************************************************************************)
(* The f64 values the estimators compute are rational combinations of      *)
(* logarithms of naturals.  A finite value is kept exactly, as             *)
(* (SUM over the primes p of num[p] * ln p) / den in lowest terms: the     *)
(* logarithms of the primes are linearly independent over the rationals,   *)
(* so two values are equal exactly when their records are.  Rounding is    *)
(* not modelled; the IEEE special values (the infinities, NaN) and the     *)
(* rules that produce them are.                                            *)
(***************************************************************************)
Primes == {p \in 2..MaxWord : \A q \in 2..(p - 1) : p % q # 0}

Zeros == [p \in Primes |-> 0]
NaN == [kind |-> "NaN", num |-> Zeros, den |-> 1]
PosInf == [kind |-> "inf", num |-> Zeros, den |-> 1]
NegInf == [kind |-> "-inf", num |-> Zeros, den |-> 1]

Abs(i) == IF i < 0 THEN 0 - i ELSE i

RECURSIVE Gcd(_, _)
Gcd(a, b) == IF b = 0 THEN a ELSE Gcd(b, a % b)

\* the greatest common divisor of g and the numerators num[p], p in ps
RECURSIVE GcdAll(_, _, _)
GcdAll(num, ps, g) ==
    IF ps = {} \/ g = 1 THEN g
    ELSE LET p == CHOOSE q \in ps : TRUE
         IN  GcdAll(num, ps \ {p}, Gcd(g, Abs(num[p])))

\* the finite value (SUM num[p] * ln p) / den, den > 0, in lowest terms
Finite(num, den) ==
    LET reduced(n, e, g) ==
            [kind |-> "finite", num |-> [p \in Primes |-> n[p] \div g], den |-> e \div g]
    IN  Once(<<num, den>>,
             LAMBDA v : Once(GcdAll(v[1], Primes, v[2]),
                             LAMBDA g : reduced(v[1], v[2], g)))

Zero == Finite(Zeros, 1)

\* the exponent of the prime p in n >= 1
RECURSIVE Exponent(_, _)
Exponent(n, p) == IF n % p = 0 THEN 1 + Exponent(n \div p, p) ELSE 0

\* (n as f64).ln() for a usize n: ln 0 is -inf
ln(n) == IF n = 0 THEN NegInf ELSE Finite([p \in Primes |-> Exponent(n, p)], 1)

\* the product of p^e over the primes where e = k[p] (or -k[p]) is positive
RECURSIVE PowerProduct(_, _, _)
PowerProduct(k, sign, ps) ==
    IF ps = {} THEN 1
    ELSE LET p == CHOOSE q \in ps : TRUE
             e == sign * k[p]
         IN  (IF e > 0 THEN p ^ e ELSE 1) * PowerProduct(k, sign, ps \ {p})

\* a finite value is positive when the product of the primes with positive
\* coefficients exceeds that of the primes with negative ones
IsPositive(x) == PowerProduct(x.num, 1, Primes) > PowerProduct(x.num, 0 - 1, Primes)

\* a - b on f64
sub_f64(a, b) ==
    LET difference(a0, b0) ==
            IF a0.kind = "NaN" \/ b0.kind = "NaN" THEN NaN
            ELSE IF a0.kind = "finite"
                 THEN (IF b0.kind = "finite"
                       THEN Finite([p \in Primes |-> a0.num[p] * b0.den - b0.num[p] * a0.den],
                                   a0.den * b0.den)
                       ELSE IF b0.kind = "inf" THEN NegInf ELSE PosInf)
                 ELSE IF a0.kind = b0.kind THEN NaN ELSE a0
    IN  Once(<<a, b>>, LAMBDA v : difference(v[1], v[2]))

\* (c as f64) * x for a usize c: 0 * (+-inf) is NaN
mul_f64(c, x) ==
    LET product(c0, x0) ==
            IF x0.kind = "NaN" THEN NaN
            ELSE IF x0.kind = "finite" THEN Finite([p \in Primes |-> c0 * x0.num[p]], x0.den)
            ELSE IF c0 = 0 THEN NaN ELSE x0
    IN  Once(<<c, x>>, LAMBDA v : product(v[1], v[2]))

\* x / (n as f64) for a usize n: 0 / 0 is NaN, and a nonzero x / 0 an infinity
div_f64(x, n) ==
    LET quotient(x0, n0) ==
            IF x0.kind = "NaN" THEN NaN
            ELSE IF x0.kind # "finite" THEN x0
            ELSE IF n0 # 0 THEN Finite(x0.num, x0.den * n0)
            ELSE IF x0 = Zero THEN NaN
            ELSE IF IsPositive(x0) THEN PosInf ELSE NegInf
    IN  Once(<<x, n>>, LAMBDA v : quotient(v[1], v[2]))

-----------------------------------------------------------------------------
(* NaiveEstimator *)

NaiveEstimator_new_unchecked(unnorm_distr) == [unnorm_distr |-> unnorm_distr]

NaiveEstimator_new(unnorm_distr) ==
    LET sum == IterSum(unnorm_distr)
    IN  IF sum = Panic THEN [res |-> "Panic", self |-> NoNaive]
        ELSE IF sum = 0 THEN [res |-> "NullDistribution", self |-> NoNaive]
        ELSE [res |-> "Ok", self |-> NaiveEstimator_new_unchecked(unnorm_distr)]

\* the loop of NaiveEstimator::entropy over the first j entries:
\* entropy -= repetitions * (repetitions.ln() - all.ln())
RECURSIVE entropy_loop(_, _, _)
entropy_loop(unnorm_distr, all, j) ==
    IF j = 0 THEN Zero
    ELSE LET repetitions == unnorm_distr[j]
         IN  sub_f64(entropy_loop(unnorm_distr, all, j - 1),
                     mul_f64(repetitions, sub_f64(ln(repetitions), ln(all))))

\* NaiveEstimator::entropy: the value returned, unless the sum panicked
NaiveEstimator_entropy(self) ==
    LET entropy(unnorm_distr, all) ==
            IF all = Panic THEN [res |-> "Panic", value |-> NaN]
            ELSE [res |-> "Ok",
                  value |-> div_f64(entropy_loop(unnorm_distr, all, Len(unnorm_distr)),
                                    all)]
    IN  Once(self.unnorm_distr,
             LAMBDA unnorm_distr : Once(IterSum(unnorm_distr),
                                        LAMBDA all : entropy(unnorm_distr, all)))

-----------------------------------------------------------------------------
(* Bootstrap *)

Bootstrap_new_unchecked(unnorm_distr, num_groups, degree) ==
    [num_groups |-> num_groups, degree |-> degree, unnorm_distr |-> unnorm_distr]

\* Bootstrap::new: the returned value, and the instance when it is Ok
Bootstrap_new(unnorm_distr, num_groups, degree) ==
    IF num_groups > degree
    THEN LET available_samples == IterSum(unnorm_distr)
             needed == Shl(1, num_groups)
         IN  IF available_samples = Panic \/ needed = Panic
             THEN [res |-> "Panic", self |-> NoBootstrap]
             ELSE IF available_samples >= needed
                  THEN [res |-> "Ok",
                        self |-> Bootstrap_new_unchecked(unnorm_distr, num_groups, degree)]
                  ELSE [res |-> "TooFewSamples", self |-> NoBootstrap]
    ELSE [res |-> "LowNumGroups", self |-> NoBootstrap]

Bootstrap_set_degree(self, degree) ==
    IF self.num_groups > degree
    THEN [res |-> "Ok", self |-> [self EXCEPT !.degree = degree]]
    ELSE [res |-> "HighDegree", self |-> self]

\* a variant that also accepts num_groups = degree
Bootstrap_set_num_groups_ge(self, num_groups) ==
    IF num_groups >= self.degree
    THEN [res |-> "Ok", self |-> [self EXCEPT !.num_groups = num_groups]]
    ELSE [res |-> "LowNumGroups", self |-> self]

Bootstrap_set_num_groups(self, num_groups) ==
    IF num_groups > self.degree
    THEN [res |-> "Ok", self |-> [self EXCEPT !.num_groups = num_groups]]
    ELSE [res |-> "LowNumGroups", self |-> self]

Bootstrap_set_unnorm_distr(self, unnorm_distr) ==
    LET available_samples == IterSum(unnorm_distr)
        needed == Shl(1, self.num_groups)
    IN  IF available_samples = Panic \/ needed = Panic
        THEN [res |-> "Panic", self |-> self]
        ELSE IF available_samples >= needed
             THEN [res |-> "Ok", self |-> [self EXCEPT !.unnorm_distr = unnorm_distr]]
             ELSE [res |-> "TooFewSamples", self |-> self]

\* a vector built by map(..).collect(): it panics when one of its entries does
Collect(v) == IF \E k \in DOMAIN v : v[k] = Panic THEN PanicVec ELSE v

\* entry k (1-based) is the source's index i = k - 1, shifted by i + 1 = k
Bootstrap_size_subsamples(self) ==
    LET available_samples == IterSum(self.unnorm_distr)
    IN  IF available_samples = Panic THEN PanicVec
        ELSE Collect([k \in 1..self.num_groups |-> Shr(available_samples, k)])

Bootstrap_samples_rep(self) ==
    Collect([k \in 1..self.num_groups |-> Shl(1, k - 1)])

\* SamplingMethod::total_samples, the trait's default
total_samples(samples_rep) ==
    IF samples_rep = PanicVec THEN Panic ELSE IterSum(samples_rep)

-----------------------------------------------------------------------------
(* The Bootstrap state machine *)

Running == result # "Panic"

\* the program constructs its strategy once, as its first call
BootstrapNew(hist, g, d) ==
    /\ target = "Bootstrap" /\ call = NoCall
    /\ LET r == Bootstrap_new(hist, g, d)
       IN  /\ result' = r.res
           /\ bootstrap' = r.self
           /\ live' = (r.res = "Ok")
    /\ before' = bootstrap
    /\ call' = Call("new", g, d, hist, <<>>, <<>>)
    /\ output' = <<>>
    /\ UNCHANGED <<estimation, naive, overflow_checks, target, fixed>>

BootstrapSetDegree(d) ==
    /\ target = "Bootstrap" /\ live /\ Running
    /\ LET r == Bootstrap_set_degree(bootstrap, d)
       IN  result' = r.res /\ bootstrap' = r.self
    /\ before' = bootstrap
    /\ call' = Call("set_degree", 0, d, <<>>, <<>>, <<>>)
    /\ output' = <<>>
    /\ UNCHANGED <<estimation, naive, overflow_checks, target, live, fixed>>

BootstrapSetNumGroups(g) ==
    /\ target = "Bootstrap" /\ live /\ Running
    /\ LET r == Bootstrap_set_num_groups(bootstrap, g)
       IN  result' = r.res /\ bootstrap' = r.self
    /\ before' = bootstrap
    /\ call' = Call("set_num_groups", g, 0, <<>>, <<>>, <<>>)
    /\ output' = <<>>
    /\ UNCHANGED <<estimation, naive, overflow_checks, target, live, fixed>>

BootstrapSetUnnormDistr(hist) ==
    /\ target = "Bootstrap" /\ live /\ Running
    /\ LET r == Bootstrap_set_unnorm_distr(bootstrap, hist)
       IN  result' = r.res /\ bootstrap' = r.self
    /\ before' = bootstrap
    /\ call' = Call("set_unnorm_distr", 0, 0, hist, <<>>, <<>>)
    /\ output' = <<>>
    /\ UNCHANGED <<estimation, naive, overflow_checks, target, live, fixed>>

\* size_subsamples(), samples_rep() and total_samples() called in turn
BootstrapSchedule ==
    /\ target = "Bootstrap" /\ live /\ Running
    /\ LET sizes == Bootstrap_size_subsamples(bootstrap)
           reps == Bootstrap_samples_rep(bootstrap)
           total == total_samples(reps)
           panicked == sizes = PanicVec \/ reps = PanicVec \/ total = Panic
       IN  /\ output' = IF panicked THEN <<>> ELSE <<sizes, reps, <<total>> >>
           /\ result' = IF panicked THEN "Panic" ELSE "Ok"
    /\ before' = bootstrap
    /\ call' = Call("schedule", 0, 0, <<>>, <<>>, <<>>)
    /\ UNCHANGED <<estimation, naive, overflow_checks, target, live, bootstrap, fixed>>

InitBootstrap ==
    /\ overflow_checks \in BOOLEAN
    /\ target = "Bootstrap"
    /\ naive = NoNaive
    /\ NoEstimation
    /\ live = FALSE
    /\ bootstrap = NoBootstrap
    /\ fixed = NoFixed
    /\ before = NoBootstrap
    /\ call = NoCall
    /\ result = "Ok"
    /\ output = <<>>

NextBootstrap ==
    \/ /\ call = NoCall
       /\ \E hist \in Hists, g \in Groups, d \in Degrees : BootstrapNew(hist, g, d)
    \/ \E d \in Degrees : BootstrapSetDegree(d)
    \/ \E g \in Groups : BootstrapSetNumGroups(g)
    \/ \E hist \in Hists : BootstrapSetUnnormDistr(hist)
    \/ BootstrapSchedule

SpecBootstrap == InitBootstrap /\ [][NextBootstrap]_vars

-----------------------------------------------------------------------------
(* FixedPartition *)

MaxSamples == 3
MaxSchedLen == 2

\* the vectors of the tests of fixed_partition.rs
TestSamples == <<0, 0, 0, 1, 1, 2>>
TestSizes == <<3, 2, 1>>
TestReps == <<1, 1, 1>>

\* the vectors of its test all_halves
HalvesSamples == <<0, 1, 0, 1, 0, 0, 1, 1>>
HalvesSizes == <<4, 2>>
HalvesReps == <<1, 2>>

SampleSeqs == SeqsUpTo({0, 1}, MaxSamples) \cup {TestSamples, HalvesSamples}
SizeSeqs == SeqsUpTo({0, 1, 2, HalfWord}, MaxSchedLen) \cup {TestSizes, HalvesSizes}
RepSeqs == SeqsUpTo({0, 1, 2}, MaxSchedLen) \cup {TestReps, HalvesReps}

FixedPartition_new_unchecked(samples, size_subsamples, samples_rep, degree) ==
    [samples |-> samples, size_subsamples |-> size_subsamples,
     samples_rep |-> samples_rep, degree |-> degree]

\* zip(..).map(|(size, rep)| size * rep).sum(): zip stops at the shorter
desired_samples(size_subsamples, samples_rep) ==
    LET n == IF Len(size_subsamples) < Len(samples_rep)
             THEN Len(size_subsamples) ELSE Len(samples_rep)
    IN  IterSum([k \in 1..n |-> Mul(size_subsamples[k], samples_rep[k])])

FixedPartition_new(samples, size_subsamples, samples_rep, degree) ==
    LET num_groups == Len(size_subsamples)
        desired == desired_samples(size_subsamples, samples_rep)
    IN  IF num_groups <= degree
        THEN [res |-> "LowNumGroups", self |-> NoFixed]
        ELSE IF Len(samples_rep) > Len(size_subsamples)
        THEN [res |-> "TooManyRepetitions", self |-> NoFixed]
        ELSE IF Len(samples_rep) < Len(size_subsamples)
        THEN [res |-> "TooManySubsampleSizes", self |-> NoFixed]
        ELSE IF \E k \in DOMAIN samples_rep : samples_rep[k] = 0
        THEN [res |-> "NullRepetition", self |-> NoFixed]
        ELSE IF \E k \in DOMAIN size_subsamples : size_subsamples[k] = 0
        THEN [res |-> "NullSubsampleSize", self |-> NoFixed]
        ELSE IF desired = Panic
        THEN [res |-> "Panic", self |-> NoFixed]
        ELSE IF Len(samples) < desired
        THEN [res |-> "TooFewSamples", self |-> NoFixed]
        ELSE [res |-> "Ok",
              self |-> FixedPartition_new_unchecked(samples, size_subsamples,
                                                    samples_rep, degree)]

FixedPartition_num_groups(self) == Len(self.size_subsamples)

\* a variant that only lets the degree go down
FixedPartition_set_degree_lowering(self, degree) ==
    IF FixedPartition_num_groups(self) > degree /\ degree <= self.degree
    THEN [res |-> "Ok", self |-> [self EXCEPT !.degree = degree]]
    ELSE [res |-> "TooHighDegree", self |-> self]

FixedPartition_set_degree(self, degree) ==
    IF FixedPartition_num_groups(self) > degree
    THEN [res |-> "Ok", self |-> [self EXCEPT !.degree = degree]]
    ELSE [res |-> "TooHighDegree", self |-> self]

FixedPartition_set_num_groups(self, num_groups) ==
    [res |-> "Immutable", self |-> self]

\* a variant that replaces the samples, as Bootstrap's setter does
FixedPartition_set_unnorm_distr_storing(self, unnorm_distr) ==
    [res |-> "Ok", self |-> [self EXCEPT !.samples = unnorm_distr]]

FixedPartition_set_unnorm_distr(self, unnorm_distr) ==
    [res |-> "Immutable", self |-> self]

FixedPartition_size_subsamples(self) == self.size_subsamples
FixedPartition_samples_rep(self) == self.samples_rep

\* SamplingMethod::size_subsamples_dup, the trait's default: each size pushed
\* samples_rep[counter] times, in the order of the groups
RECURSIVE size_subsamples_dup(_, _)
size_subsamples_dup(size_subsamples, samples_rep) ==
    IF size_subsamples = <<>> THEN <<>>
    ELSE [k \in 1..samples_rep[1] |-> size_subsamples[1]]
         \o size_subsamples_dup(Tail(size_subsamples), Tail(samples_rep))

\* count_dup: the occurrences of each distinct element, in no order: the bag
\* of the counts (count |-> how many distinct elements occur that often)
count_dup(samples) ==
    LET distinct == {samples[i] : i \in DOMAIN samples}
        occurrence(v) == Cardinality({i \in DOMAIN samples : samples[i] = v})
        counts == {occurrence(v) : v \in distinct}
    IN  [c \in counts |-> Cardinality({v \in distinct : occurrence(v) = c})]

\* the vector count_dup returns, in one of its orders (ascending)
RECURSIVE counts_vec(_)
counts_vec(bag) ==
    IF DOMAIN bag = {} THEN <<>>
    ELSE LET c == CHOOSE c \in DOMAIN bag : \A e \in DOMAIN bag : c <= e
         IN  [k \in 1..bag[c] |-> c] \o counts_vec([e \in DOMAIN bag \ {c} |-> bag[e]])

\* NaiveEstimator::new_unchecked(&unnorm_distr).entropy(), the naive entropy
\* of a subsample: the total mass of its histogram is not inspected
naive_entropy_value(unnorm_distr) ==
    NaiveEstimator_entropy(NaiveEstimator_new_unchecked(counts_vec(unnorm_distr))).value

\* a variant that takes the chunk from the front of the buffer
sub_sample_front(sample_long, group_size) ==
    [j \in 1..group_size |-> sample_long[j]]

\* (0..group_size).map(|_| sample_long.pop().unwrap()): the elements leave
\* from the end of the buffer, the last one first
sub_sample(sample_long, group_size) ==
    [j \in 1..group_size |-> sample_long[Len(sample_long) - j + 1]]

\* One entry of the vector naive_entropies returns: the size and the naive
\* entropy value, with the chunk and the histogram the value is computed from
Observation(group_size, chunk) ==
    Once(count_dup(chunk),
         LAMBDA unnorm_distr :
             [size |-> group_size, sub_sample |-> chunk, unnorm_distr |-> unnorm_distr,
              value |-> naive_entropy_value(unnorm_distr)])

\* The two loops of naive_entropies from group `group_index`, `done`
\* repetitions of it made: the observations pushed, and whether pop() met an
\* empty buffer (unwrap() panics)
RECURSIVE naive_entropies_loop(_, _, _, _, _)
naive_entropies_loop(self, group_index, done, sample_long, naive_entropies) ==
    IF group_index > Len(FixedPartition_size_subsamples(self))
    THEN [panicked |-> FALSE, obs |-> naive_entropies]
    ELSE LET group_size == FixedPartition_size_subsamples(self)[group_index]
             repetitions == FixedPartition_samples_rep(self)[group_index]
         IN  IF done >= repetitions
             THEN naive_entropies_loop(self, group_index + 1, 0, sample_long,
                                       naive_entropies)
             ELSE IF Len(sample_long) < group_size
             THEN [panicked |-> TRUE, obs |-> naive_entropies]
             ELSE Once(<<SubSeq(sample_long, 1, Len(sample_long) - group_size),
                         Append(naive_entropies,
                                Observation(group_size,
                                            sub_sample(sample_long, group_size)))>>,
                       LAMBDA next : naive_entropies_loop(self, group_index, done + 1,
                                                          next[1], next[2]))

\* a variant that pops from self.samples itself instead of a clone
FixedPartition_naive_entropies_draining(self) ==
    LET capacity == total_samples(FixedPartition_samples_rep(self))
        run == naive_entropies_loop(self, 1, 0, self.samples, <<>>)
        popped == TrueSum([k \in DOMAIN run.obs |-> run.obs[k].size])
        left == SubSeq(self.samples, 1, Len(self.samples) - popped)
    IN  IF capacity = Panic
        THEN [res |-> "Panic", out |-> <<>>, self |-> self]
        ELSE IF run.panicked
        THEN [res |-> "Panic", out |-> <<>>, self |-> [self EXCEPT !.samples = left]]
        ELSE [res |-> "Ok", out |-> run.obs, self |-> [self EXCEPT !.samples = left]]

\* FixedPartition::naive_entropies: the buffer consumed is a clone of
\* self.samples, so self is returned as it was
FixedPartition_naive_entropies(self) ==
    LET capacity == total_samples(FixedPartition_samples_rep(self))
        sample_long == self.samples
        run == naive_entropies_loop(self, 1, 0, sample_long, <<>>)
    IN  IF capacity = Panic \/ run.panicked
        THEN [res |-> "Panic", out |-> <<>>, self |-> self]
        ELSE [res |-> "Ok", out |-> run.obs, self |-> self]

-----------------------------------------------------------------------------
(* The FixedPartition state machine *)

FixedNew(samples, sizes, reps, d) ==
    /\ target = "FixedPartition" /\ call = NoCall
    /\ LET r == FixedPartition_new(samples, sizes, reps, d)
       IN  /\ result' = r.res
           /\ fixed' = r.self
           /\ live' = (r.res = "Ok")
    /\ before' = fixed
    /\ call' = Call("new", 0, d, samples, sizes, reps)
    /\ output' = <<>>
    /\ UNCHANGED <<estimation, naive, overflow_checks, target, bootstrap>>

FixedSetDegree(d) ==
    /\ target = "FixedPartition" /\ live /\ Running
    /\ LET r == FixedPartition_set_degree(fixed, d)
       IN  result' = r.res /\ fixed' = r.self
    /\ before' = fixed
    /\ call' = Call("set_degree", 0, d, <<>>, <<>>, <<>>)
    /\ output' = <<>>
    /\ UNCHANGED <<estimation, naive, overflow_checks, target, live, bootstrap>>

FixedSetNumGroups(g) ==
    /\ target = "FixedPartition" /\ live /\ Running
    /\ LET r == FixedPartition_set_num_groups(fixed, g)
       IN  result' = r.res /\ fixed' = r.self
    /\ before' = fixed
    /\ call' = Call("set_num_groups", g, 0, <<>>, <<>>, <<>>)
    /\ output' = <<>>
    /\ UNCHANGED <<estimation, naive, overflow_checks, target, live, bootstrap>>

FixedSetUnnormDistr(hist) ==
    /\ target = "FixedPartition" /\ live /\ Running
    /\ LET r == FixedPartition_set_unnorm_distr(fixed, hist)
       IN  result' = r.res /\ fixed' = r.self
    /\ before' = fixed
    /\ call' = Call("set_unnorm_distr", 0, 0, hist, <<>>, <<>>)
    /\ output' = <<>>
    /\ UNCHANGED <<estimation, naive, overflow_checks, target, live, bootstrap>>

\* call.n counts the naive_entropies() calls made in a row, this one included
FixedNaiveEntropies ==
    /\ target = "FixedPartition" /\ live /\ Running
    /\ LET r == FixedPartition_naive_entropies(fixed)
       IN  result' = r.res /\ fixed' = r.self /\ output' = r.out
    /\ before' = fixed
    /\ call' = Call("naive_entropies",
                    IF call.op = "naive_entropies" THEN 2 ELSE 1,
                    0, <<>>, <<>>, <<>>)
    /\ UNCHANGED <<estimation, naive, overflow_checks, target, live, bootstrap>>

InitFixed ==
    /\ overflow_checks \in BOOLEAN
    /\ target = "FixedPartition"
    /\ naive = NoNaive
    /\ NoEstimation
    /\ live = FALSE
    /\ bootstrap = NoBootstrap
    /\ fixed = NoFixed
    /\ before = NoFixed
    /\ call = NoCall
    /\ result = "Ok"
    /\ output = <<>>

NextFixed ==
    \/ /\ call = NoCall
       /\ \E samples \in SampleSeqs, sizes \in SizeSeqs, reps \in RepSeqs, d \in Degrees :
              FixedNew(samples, sizes, reps, d)
    \/ \E d \in Degrees : FixedSetDegree(d)
    \/ \E g \in 0..MaxSchedLen + 1 : FixedSetNumGroups(g)
    \/ \E hist \in {<<>>, <<1>>, TestHist} : FixedSetUnnormDistr(hist)
    \/ FixedNaiveEntropies

SpecFixed == InitFixed /\ [][NextFixed]_vars

-----------------------------------------------------------------------------
(* Random generators *)

\* The generators are scaled down to RngPeriod states; a seeded generator
\* (rand_pcg's Pcg32 in the tests) steps as a linear congruential generator.
RngPeriod == 16
RngStates == 0..(RngPeriod - 1)

\* the generator handle a Bootstrap owns: rand::thread_rng() is a handle to
\* the generator of the thread, rng(seed) one the instance owns
ThreadRng == [kind |-> "thread", state |-> 0]
SeededRng(seed) == [kind |-> "owned", state |-> seed % RngPeriod]

rng_next(x) == (5 * x + 3) % RngPeriod

\* the partial Fisher-Yates shuffle behind choose_multiple: position i takes
\* one of the entries from i on, picked by the generator
RECURSIVE sample_inplace(_, _, _, _)
sample_inplace(indices, i, amount, x) ==
    IF i > amount THEN [indices |-> indices, rng |-> x]
    ELSE LET j == i + (x % (Len(indices) - i + 1))
             swapped == [indices EXCEPT ![i] = indices[j], ![j] = indices[i]]
         IN  Once(<<swapped, rng_next(x)>>,
                  LAMBDA next : sample_inplace(next[1], i + 1, amount, next[2]))

\* a variant that draws with replacement: one position taken amount times
choose_multiple_replacing(slice, amount, x) ==
    LET n == IF amount > Len(slice) THEN Len(slice) ELSE amount
    IN  Once(sample_inplace([k \in 1..Len(slice) |-> k], 1, n, x),
             LAMBDA drawn : [chosen |-> [k \in 1..n |-> slice[drawn.indices[1]]],
                             rng |-> drawn.rng])

\* slice.choose_multiple(&mut rng, amount).cloned().collect(): amount
\* elements at distinct positions (all of them when amount > len), and the
\* generator after the draw
choose_multiple(slice, amount, x) ==
    LET n == IF amount > Len(slice) THEN Len(slice) ELSE amount
    IN  Once(sample_inplace([k \in 1..Len(slice) |-> k], 1, n, x),
             LAMBDA drawn : [chosen |-> [k \in 1..n |-> slice[drawn.indices[k]]],
                             rng |-> drawn.rng])

-----------------------------------------------------------------------------
(* FixedPartition: the shuffle *)

\* slice.shuffle(rng), the Fisher-Yates shuffle of rand: from the last
\* position down to the second, position i is swapped with one of the
\* positions up to i, picked by the generator (in state x)
RECURSIVE shuffle(_, _, _)
shuffle(samples, i, x) ==
    IF i <= 1 THEN samples
    ELSE LET j == 1 + (x % i)
             swapped == [samples EXCEPT ![i] = samples[j], ![j] = samples[i]]
         IN  Once(<<swapped, rng_next(x)>>, LAMBDA next : shuffle(next[1], i - 1, next[2]))

\* a variant that copies the picked sample over the last one
FixedPartition_shuffle_copying(self, x) ==
    IF self.samples = <<>> THEN self
    ELSE [self EXCEPT !.samples[Len(self.samples)] =
                          self.samples[1 + (x % Len(self.samples))]]

\* FixedPartition::shuffle with a generator in state x
FixedPartition_shuffle(self, x) ==
    [self EXCEPT !.samples = shuffle(self.samples, Len(self.samples), x)]

\* fixed.shuffle(&mut rng), the generator of the caller being in any state
FixedShuffle(x) ==
    /\ target = "FixedPartition" /\ live /\ Running
    /\ fixed' = FixedPartition_shuffle(fixed, x)
    /\ result' = "Ok"
    /\ before' = fixed
    /\ call' = Call("shuffle", 0, 0, <<>>, <<>>, <<>>)
    /\ output' = <<>>
    /\ UNCHANGED <<estimation, naive, overflow_checks, target, live, bootstrap>>

\* the schedules of the programs that shuffle: those of the tests, short
\* ones, and one whose size * repetitions overflows
ShuffleSchedules ==
    {<<TestSizes, TestReps>>, <<HalvesSizes, HalvesReps>>, <<<<1>>, <<1>>>>,
     <<<<2, 1>>, <<1, 2>>>>, <<<<1, 2>>, <<1, 1>>>>, <<<<2>>, <<3>>>>,
     <<<<HalfWord>>, <<2>>>>}

\* a program that builds a FixedPartition, shuffles it and runs it
NextFixedShuffle ==
    \/ /\ call = NoCall
       /\ \E samples \in SampleSeqs, schedule \in ShuffleSchedules, d \in Degrees :
              FixedNew(samples, schedule[1], schedule[2], d)
    \/ \E x \in RngStates : FixedShuffle(x)
    \/ \E d \in Degrees : FixedSetDegree(d)
    \/ FixedNaiveEntropies

SpecFixedShuffle == InitFixed /\ [][NextFixedShuffle]_vars

-----------------------------------------------------------------------------
(* Bootstrap: the naive entropies *)

\* the histogram expanded into the labels 0..len-1, label j pushed
\* unnorm_distr[j] times
RECURSIVE expand(_, _)
expand(unnorm_distr, j) ==
    IF j = 0 THEN <<>>
    ELSE expand(unnorm_distr, j - 1) \o [k \in 1..unnorm_distr[j] |-> j - 1]

\* the two loops of Bootstrap::sample_entropy from group `group_index`,
\* `done` repetitions of it made, the generator in state x: the values
\* written to y, in order, and the generator after the last draw
RECURSIVE sample_entropy_loop(_, _, _, _, _, _, _)
sample_entropy_loop(sample_long, sizes, reps, group_index, done, x, y) ==
    IF group_index > Len(sizes) THEN [y |-> y, rng |-> x]
    ELSE IF done >= reps[group_index]
    THEN sample_entropy_loop(sample_long, sizes, reps, group_index + 1, 0, x, y)
    ELSE Once(choose_multiple(sample_long, sizes[group_index], x),
              LAMBDA draw :
                  Once(Append(y, Observation(sizes[group_index], draw.chosen)),
                       LAMBDA pushed :
                           sample_entropy_loop(sample_long, sizes, reps, group_index,
                                               done + 1, draw.rng, pushed)))

\* Bootstrap::sample_entropy with the generator in state x: y has
\* total_samples() entries, and writing past its end panics
Bootstrap_sample_entropy(self, x) ==
    LET sample_entropy(capacity, sizes, reps, sample_long) ==
            IF capacity = Panic \/ sizes = PanicVec \/ reps = PanicVec
            THEN [res |-> "Panic", out |-> <<>>, rng |-> x]
            ELSE Once(sample_entropy_loop(sample_long, sizes, reps, 1, 0, x, <<>>),
                      LAMBDA run :
                          IF Len(run.y) > capacity
                          THEN [res |-> "Panic", out |-> <<>>, rng |-> run.rng]
                          ELSE [res |-> "Ok", out |-> run.y, rng |-> run.rng])
    IN  Once(<<total_samples(Bootstrap_samples_rep(self)), Bootstrap_size_subsamples(self),
               Bootstrap_samples_rep(self),
               expand(self.unnorm_distr, Len(self.unnorm_distr))>>,
             LAMBDA v : sample_entropy(v[1], v[2], v[3], v[4]))

-----------------------------------------------------------------------------
(* The polynomial fits *)

(***************************************************************************)
(* The entries of the design matrices are powers of the sizes: exact       *)
(* rationals n / d in lowest terms, d > 0.  The solution of a least        *)
(* squares system is a rational combination of the observed values.        *)
(***************************************************************************)
Rat(n, d) == LET g == Gcd(Abs(n), d) IN [n |-> n \div g, d |-> d \div g]

RAdd(p, q) ==
    LET g == Gcd(p.d, q.d)
    IN  Rat(p.n * (q.d \div g) + q.n * (p.d \div g), (p.d \div g) * q.d)

RNeg(p) == [n |-> 0 - p.n, d |-> p.d]

RMul(p, q) ==
    LET g1 == Gcd(Abs(p.n), q.d)
        g2 == Gcd(Abs(q.n), p.d)
    IN  Rat((p.n \div g1) * (q.n \div g2), (p.d \div g2) * (q.d \div g1))

\* (s as f64).powi(e) for a size s; a denominator 0 stands for +inf, the
\* negative powers of 0.0
powi(s, e) ==
    IF e = 0 THEN Rat(1, 1)
    ELSE IF e > 0 THEN Rat(s ^ e, 1)
    ELSE Rat(1, s ^ (0 - e))

\* a variant whose columns are counted from 1
design_matrix_shifted(sizes, rows, columns, first) ==
    LET row(size) == Vector([c \in 1..columns |-> powi(size, first - c)], columns)
    IN  Vector([r \in 1..rows |-> row(sizes[r])], rows)

\* DMatrix::from_fn(rows, columns, |r, c| (sizes[r] as f64).powi(first - c)),
\* a sequence of rows; the closure counts the columns c from 0
design_matrix(sizes, rows, columns, first) ==
    LET row(size) == Vector([c \in 1..columns |-> powi(size, first - (c - 1))], columns)
    IN  Vector([r \in 1..rows |-> row(sizes[r])], rows)

\* SamplingMethod::sample_entropy_matrix, the trait's default, on a
\* Bootstrap: total_samples() rows and degree + 1 columns of
\* size_subsamples_dup()[r]^(1 - c)
Bootstrap_sample_entropy_matrix(self) ==
    LET matrix(sizes, reps, total) ==
            IF sizes = PanicVec \/ reps = PanicVec \/ total = Panic
            THEN [res |-> "Panic", out |-> <<>>]
            ELSE [res |-> "Ok",
                  out |-> design_matrix(size_subsamples_dup(sizes, reps), total,
                                        self.degree + 1, 1)]
    IN  Once(<<Bootstrap_size_subsamples(self), Bootstrap_samples_rep(self),
               total_samples(Bootstrap_samples_rep(self))>>,
             LAMBDA v : matrix(v[1], v[2], v[3]))

\* -x on f64
neg_f64(x) ==
    LET negated(x0) ==
            IF x0.kind = "inf" THEN NegInf
            ELSE IF x0.kind = "-inf" THEN PosInf
            ELSE IF x0.kind = "finite" THEN [x0 EXCEPT !.num = [p \in Primes |-> 0 - x0.num[p]]]
            ELSE x0
    IN  Once(<<x>>, LAMBDA v : negated(v[1]))

\* a + b on f64
add_f64(a, b) == sub_f64(a, neg_f64(b))

\* r * x on f64 for a rational r and a finite x; nothing is said of the
\* product with an infinity or a NaN beyond its being a NaN or an infinity
scale_f64(r, x) ==
    LET product(r0, x0) ==
            IF x0.kind # "finite" THEN NaN
            ELSE IF r0.n = 0 THEN Zero
            ELSE Finite([p \in Primes |-> r0.n * x0.num[p]], r0.d * x0.den)
    IN  Once(<<r, x>>, LAMBDA v : product(v[1], v[2]))

\* a value that rounding alone decides: what solving a singular system
\* returns when no pivot came out as exactly zero
Unspecified == [kind |-> "unspecified", num |-> Zeros, den |-> 1]

\* the sum of the rationals f[r], r in 1..n
RECURSIVE RSum(_, _)
RSum(f, n) ==
    IF n = 0 THEN Rat(0, 1) ELSE Once(<<RSum(f, n - 1), f[n]>>, LAMBDA v : RAdd(v[1], v[2]))

\* the sum of the values f[r], r in 1..n
RECURSIVE FSum(_, _)
FSum(f, n) ==
    IF n = 0 THEN Zero ELSE Once(<<FSum(f, n - 1), f[n]>>, LAMBDA v : add_f64(v[1], v[2]))

\* x.transpose() * x for a matrix x of n rows (a sequence of rows)
gram(x, columns) ==
    LET entry(j, k) == RSum([r \in 1..Len(x) |-> RMul(x[r][j], x[r][k])], Len(x))
    IN  Vector([j \in 1..columns |-> Vector([k \in 1..columns |-> entry(j, k)], columns)],
               columns)

\* x.transpose() * y for a vector y of values
moments(x, y, columns) ==
    Vector([j \in 1..columns |->
               FSum([r \in 1..Len(x) |-> scale_f64(x[r][j], y[r])], Len(x))], columns)

RemoveAt(s, i) == SubSeq(s, 1, i - 1) \o SubSeq(s, i + 1, Len(s))

\* the matrix a without its row i and its first column
Minor(a, i) == [r \in 1..(Len(a) - 1) |-> Tail(RemoveAt(a, i)[r])]

\* the determinant, expanded along the first column
RECURSIVE Det(_)
Det(a) ==
    IF Len(a) = 1 THEN a[1][1]
    ELSE RSum([i \in 1..Len(a) |->
                  LET term == RMul(a[i][1], Det(Minor(a, i)))
                  IN  IF i % 2 = 1 THEN term ELSE RNeg(term)], Len(a))

\* The first coefficient of the solution of a * polynomial = b.  A singular
\* a has no solution: the elimination then meets a pivot that is zero, or,
\* in f64, a rounding residue of it, and solve() only recognises the exact
\* zero (`exact` tells which the run meets).
solve_first(a, b, exact) ==
    LET cofactor(i) == LET m == IF Len(a) = 1 THEN Rat(1, 1) ELSE Det(Minor(a, i))
                       IN  IF i % 2 = 1 THEN m ELSE RNeg(m)
        inverse(det) == [n |-> IF det.n < 0 THEN 0 - det.d ELSE det.d, d |-> Abs(det.n)]
        solution(det) ==
            IF det.n = 0
            THEN (IF exact THEN [solved |-> FALSE, first |-> NaN]
                  ELSE [solved |-> TRUE, first |-> Unspecified])
            ELSE [solved |-> TRUE,
                  first |-> FSum([i \in 1..Len(a) |->
                                     scale_f64(RMul(cofactor(i), inverse(det)), b[i])],
                                 Len(a))]
    IN  Once(Det(a), solution)

-----------------------------------------------------------------------------
(* The Bootstrap state machine, continued: the design matrix *)

\* bootstrap.sample_entropy_matrix()
BootstrapSampleEntropyMatrix ==
    /\ target = "Bootstrap" /\ live /\ result # "Panic"
    /\ \E r \in {Bootstrap_sample_entropy_matrix(bootstrap)} :
           result' = r.res /\ output' = r.out
    /\ before' = bootstrap
    /\ call' = Call("sample_entropy_matrix", 0, 0, <<>>, <<>>, <<>>)
    /\ UNCHANGED <<estimation, naive, overflow_checks, target, live, bootstrap, fixed>>

\* the Bootstrap program may also ask for the matrix
NextBootstrapMatrix == NextBootstrap \/ BootstrapSampleEntropyMatrix

SpecBootstrapMatrix == InitBootstrap /\ [][NextBootstrapMatrix]_vars

-----------------------------------------------------------------------------
(* Estimator and DirectEstimator *)

DEFAULT_NUM_GROUPS == 3
DEFAULT_DEGREE == 2

\* A sampling method an estimator wraps: the fields of the strategy, and the
\* generator a Bootstrap holds
BootstrapMethod(self, rng) == [type |-> "Bootstrap", self |-> self, rng |-> rng]
FixedMethod(self) == [type |-> "FixedPartition", self |-> self, rng |-> NoRng]

\* a variant in which every Bootstrap draws from the generator of the thread
naive_entropies_thread(method, thread) ==
    IF method.type = "Bootstrap"
    THEN Once(Bootstrap_sample_entropy(method.self, thread),
              LAMBDA run : [res |-> run.res, out |-> run.out, method |-> method,
                            thread |-> run.rng])
    ELSE Once(FixedPartition_naive_entropies(method.self),
              LAMBDA run : [res |-> run.res, out |-> run.out, method |-> method,
                            thread |-> thread])

\* a variant that runs the strategy twice and returns the second run
naive_entropies_again(method, thread) ==
    IF method.type = "Bootstrap"
    THEN LET owned == method.rng.kind = "owned"
             twice(x) == Once(Bootstrap_sample_entropy(method.self, x),
                              LAMBDA first : Bootstrap_sample_entropy(method.self, first.rng))
         IN  Once(twice(IF owned THEN method.rng.state ELSE thread),
                  LAMBDA run :
                      [res |-> run.res, out |-> run.out,
                       method |-> IF owned THEN [method EXCEPT !.rng.state = run.rng]
                                  ELSE method,
                       thread |-> IF owned THEN thread ELSE run.rng])
    ELSE Once(FixedPartition_naive_entropies(method.self),
              LAMBDA run : [res |-> run.res, out |-> run.out, method |-> method,
                            thread |-> thread])

\* sampling_method.naive_entropies(): the (size, value) pairs, the method
\* after the run and the generator of the thread after it.  A Bootstrap
\* draws from self.rng: the generator it owns, or the one of the thread when
\* self.rng is a ThreadRng.
naive_entropies(method, thread) ==
    IF method.type = "Bootstrap"
    THEN LET owned == method.rng.kind = "owned"
         IN  Once(Bootstrap_sample_entropy(method.self,
                                           IF owned THEN method.rng.state ELSE thread),
                  LAMBDA run :
                      [res |-> run.res, out |-> run.out,
                       method |-> IF owned THEN [method EXCEPT !.rng.state = run.rng]
                                  ELSE method,
                       thread |-> IF owned THEN thread ELSE run.rng])
    ELSE Once(FixedPartition_naive_entropies(method.self),
              LAMBDA run : [res |-> run.res, out |-> run.out, method |-> method,
                            thread |-> thread])

method_total_samples(method) ==
    IF method.type = "Bootstrap" THEN total_samples(Bootstrap_samples_rep(method.self))
    ELSE total_samples(FixedPartition_samples_rep(method.self))

Estimator_new(kind, sampling_method) == [kind |-> kind, sampling_method |-> sampling_method]

\* From<[usize; N]>: a Bootstrap of the default parameters on the generator
\* of the thread, unwrapped
Estimator_from_distr(kind, unnorm_distr) ==
    LET r == Bootstrap_new(unnorm_distr, DEFAULT_NUM_GROUPS, DEFAULT_DEGREE)
    IN  IF r.res = "Ok"
        THEN [res |-> "Ok", self |-> Estimator_new(kind, BootstrapMethod(r.self, ThreadRng))]
        ELSE [res |-> "Panic", self |-> NoEstimator]

\* From<&[T]> and From<Vec<T>>: the same, on count_dup(samples)
Estimator_from_samples(kind, samples) ==
    Estimator_from_distr(kind, counts_vec(count_dup(samples)))

\* a variant that keeps the strategy the estimator already has
set_sampling_method_keeping(self, other) == self

set_sampling_method(self, other) == [kind |-> self.kind, sampling_method |-> other]

\* the fit of one entropy() call: the design matrix of `columns` columns,
\* whose entry at row r and column c (from 0) is size[r]^(first - c), against
\* the values y
fit(sizes, y, columns, first, exact) ==
    LET x == design_matrix(sizes, Len(sizes), columns, first)
    IN  IF \E r \in DOMAIN sizes : sizes[r] = 0 \/ y[r].kind # "finite"
        THEN [solved |-> TRUE, first |-> NaN]
        ELSE Once(x, LAMBDA matrix :
                 Once(<<gram(matrix, columns), moments(matrix, y, columns)>>,
                      LAMBDA system : solve_first(system[1], system[2], exact)))

\* what entropy() returns, the estimator after the call and the generator of
\* the thread after it
Outcome(self, run, solution) ==
    IF run.res = "Panic"
    THEN [res |-> "Panic", value |-> NaN, out |-> <<>>,
          self |-> [self EXCEPT !.sampling_method = run.method], thread |-> run.thread]
    ELSE [res |-> IF solution.solved THEN "Ok" ELSE "FittingError",
          value |-> solution.first, out |-> run.out,
          self |-> [self EXCEPT !.sampling_method = run.method], thread |-> run.thread]

Panicked(run) == [run EXCEPT !.res = "Panic"]

\* a variant that scales the values by the sizes but not the matrix
Estimator_entropy_unscaled(self, thread, exact) ==
    LET polynomial(out, degree, pivot) ==
            LET sizes == Vector([r \in DOMAIN out |-> out[r].size], Len(out))
                scaled == Vector([r \in DOMAIN out |->
                                     scale_f64(Rat(out[r].size, 1), out[r].value)],
                                 Len(out))
            IN  Once(<<sizes, scaled>>, LAMBDA v : fit(v[1], v[2], degree + 1, 0, pivot))
        entropy(run, rows, pivot) ==
            IF run.res = "Panic" \/ rows # Len(run.out)
            THEN Outcome(self, Panicked(run), [solved |-> FALSE, first |-> NaN])
            ELSE Outcome(self, run, polynomial(run.out, run.method.self.degree, pivot))
    IN  CHOOSE outcome \in
            {entropy(run, rows, pivot) :
                run \in {naive_entropies(self.sampling_method, thread)},
                rows \in {method_total_samples(self.sampling_method)},
                pivot \in {exact}} : TRUE

\* Estimator::entropy: the values scaled by their sizes are fitted against
\* the matrix of total_samples() rows and degree + 1 columns size^(1 - c);
\* a matrix and a vector whose numbers of rows differ panic.  The
\* observations are drawn once, then fitted.
Estimator_entropy(self, thread, exact) ==
    LET polynomial(out, degree, pivot) ==
            LET size_subsamples == Vector([r \in DOMAIN out |-> out[r].size], Len(out))
                scaled_naive_entropies ==
                    Vector([r \in DOMAIN out |->
                               scale_f64(Rat(out[r].size, 1), out[r].value)], Len(out))
            IN  Once(<<size_subsamples, scaled_naive_entropies>>,
                     LAMBDA v : fit(v[1], v[2], degree + 1, 1, pivot))
        entropy(run, rows, pivot) ==
            IF run.res = "Panic" \/ rows # Len(run.out)
            THEN Outcome(self, Panicked(run), [solved |-> FALSE, first |-> NaN])
            ELSE Outcome(self, run, polynomial(run.out, run.method.self.degree, pivot))
    IN  CHOOSE outcome \in
            {entropy(run, rows, pivot) :
                run \in {naive_entropies(self.sampling_method, thread)},
                rows \in {method_total_samples(self.sampling_method)},
                pivot \in {exact}} : TRUE

\* DirectEstimator::entropy: polyfit of the values against 1 / size, the
\* least squares polynomial of the degree of the method.  polyfit solves by
\* a singular value decomposition, which returns a vector for a singular
\* system too: no pivot is tested.
DirectEstimator_entropy(self, thread) ==
    LET coefficients(out, degree) ==
            LET sizes == Vector([r \in DOMAIN out |-> out[r].size], Len(out))
                naive_entropy_values == Vector([r \in DOMAIN out |-> out[r].value], Len(out))
            IN  Once(<<sizes, naive_entropy_values>>,
                     LAMBDA v : fit(v[1], v[2], degree + 1, 0, FALSE))
        entropy(run) ==
            IF run.res = "Panic"
            THEN Outcome(self, run, [solved |-> FALSE, first |-> NaN])
            ELSE Outcome(self, run, coefficients(run.out, run.method.self.degree))
    IN  CHOOSE outcome \in
            {entropy(run) : run \in {naive_entropies(self.sampling_method, thread)}} : TRUE

-----------------------------------------------------------------------------
(* The NaiveEstimator state machine *)

MaxNaiveLen == 3
MaxUniform == 8

\* k equal counts c
Uniform(k, c) == [i \in 1..k |-> c]

\* every short histogram over a few counts, the histograms of the tests of
\* naive.rs, and the uniform ones
NaiveHists ==
    SeqsUpTo({0, 1, 2, 3, HalfWord, MaxWord}, MaxNaiveLen)
        \cup {<<11>>, <<0, 5, 0>>, TestHist}
        \cup {Uniform(k, c) : k \in 1..MaxUniform, c \in {1, 2, 3}}

NaiveNew(hist) ==
    /\ target = "NaiveEstimator" /\ call = NoCall
    /\ LET r == NaiveEstimator_new(hist)
       IN  /\ result' = r.res
           /\ naive' = r.self
           /\ live' = (r.res = "Ok")
    /\ call' = Call("new", 1, 0, hist, <<>>, <<>>)
    /\ output' = <<>>
    /\ UNCHANGED <<estimation, overflow_checks, target, bootstrap, fixed, before>>

NaiveNewUnchecked(hist) ==
    /\ target = "NaiveEstimator" /\ call = NoCall
    /\ naive' = NaiveEstimator_new_unchecked(hist)
    /\ result' = "Ok"
    /\ live' = TRUE
    /\ call' = Call("new_unchecked", 0, 0, hist, <<>>, <<>>)
    /\ output' = <<>>
    /\ UNCHANGED <<estimation, overflow_checks, target, bootstrap, fixed, before>>

\* call.n is 1 when the instance came from new, 0 from new_unchecked
NaiveEntropy ==
    /\ target = "NaiveEstimator" /\ live /\ Running
    /\ LET r == NaiveEstimator_entropy(naive)
       IN  /\ result' = r.res
           /\ output' = IF r.res = "Ok" THEN <<r.value>> ELSE <<>>
    /\ call' = Call("entropy", call.n, 0, <<>>, <<>>, <<>>)
    /\ UNCHANGED <<estimation, overflow_checks, target, live, bootstrap, fixed, before, naive>>

InitNaive ==
    /\ overflow_checks \in BOOLEAN
    /\ target = "NaiveEstimator"
    /\ live = FALSE
    /\ bootstrap = NoBootstrap
    /\ fixed = NoFixed
    /\ naive = NoNaive
    /\ NoEstimation
    /\ before = NoNaive
    /\ call = NoCall
    /\ result = "Ok"
    /\ output = <<>>

NextNaive ==
    \/ /\ call = NoCall
       /\ \E hist \in NaiveHists : NaiveNew(hist)
    \/ /\ call = NoCall
       /\ \E hist \in NaiveHists : NaiveNewUnchecked(hist)
    \/ NaiveEntropy

SpecNaive == InitNaive /\ [][NextNaive]_vars

-----------------------------------------------------------------------------
(* The estimator state machine *)

\* the entropy() calls made on an estimator after it was handed a strategy
MaxRuns == 2

\* FixedPartition strategies: the schedule of fixed_partition.rs's test
\* all_halves (degree + 1 distinct sizes, one of them repeated) on samples
\* whose chunks differ; one whose schedule has more distinct sizes than
\* degree + 1; one whose sizes are all equal (three groups of size 3, two
\* repetitions each, degree 2)
RepeatedSizes == FixedPartition_new(<<0, 0, 0, 1, 0, 1, 0, 1>>, <<4, 2>>, <<1, 2>>, 1).self
TwoSizes == FixedPartition_new(<<0, 1, 0>>, <<2, 1>>, <<1, 1>>, 0).self
EqualSizes ==
    FixedPartition_new([k \in 1..18 |-> k % 3], <<3, 3, 3>>, <<2, 2, 2>>, 2).self

\* a Bootstrap strategy on the histogram [4, 4]: two groups, degree 1, and a
\* seeded generator of its own
TwoGroups == Bootstrap_new(<<4, 4>>, 2, 1).self

Methods ==
    {FixedMethod(RepeatedSizes), FixedMethod(TwoSizes), FixedMethod(EqualSizes),
     BootstrapMethod(TwoGroups, SeededRng(1))}

\* the sources of the conversions: histograms, and raw samples (the letters
\* of estimator.rs's tests)
SourceHists == {<<1>>, <<4, 4>>}
SourceSamples == {<<0>>, <<0, 1, 2, 3, 3, 4, 4, 4>>}

\* the program builds an Estimator first, then an estimator of either kind
Kinds(i) == IF i = 1 THEN {"Estimator"} ELSE {"Estimator", "DirectEstimator"}

\* the seed the operating system gives the generator of the thread
ThreadSeeds == {0}

Built(i) == estimators[i].kind # "none"

\* the program builds its estimators one after the other
Next_slot(i) == ~Built(i) /\ (IF i = 1 THEN TRUE ELSE Built(i - 1))

\* Estimator::from(unnorm_distr) and DirectEstimator::from(unnorm_distr)
EstimatorFromDistr(i, kind, hist) ==
    /\ target = "Estimator" /\ Running /\ Next_slot(i)
    /\ LET r == Estimator_from_distr(kind, hist)
       IN  /\ result' = r.res
           /\ estimators' = [estimators EXCEPT ![i] = r.self]
           /\ given' = [given EXCEPT ![i] = [by |-> "from", method |-> r.self.sampling_method]]
    /\ slot' = i
    /\ before' = estimators[i]
    /\ call' = Call("from_distr", 0, 0, hist, <<>>, <<>>)
    /\ output' = <<>>
    /\ UNCHANGED <<thread_rng, exact_pivot, runs, returned>>
    /\ UNCHANGED <<naive, overflow_checks, target, live, bootstrap, fixed>>

\* Estimator::from(samples) and DirectEstimator::from(samples)
EstimatorFromSamples(i, kind, samples) ==
    /\ target = "Estimator" /\ Running /\ Next_slot(i)
    /\ LET r == Estimator_from_samples(kind, samples)
       IN  /\ result' = r.res
           /\ estimators' = [estimators EXCEPT ![i] = r.self]
           /\ given' = [given EXCEPT ![i] = [by |-> "from", method |-> r.self.sampling_method]]
    /\ slot' = i
    /\ before' = estimators[i]
    /\ call' = Call("from_samples", 0, 0, samples, <<>>, <<>>)
    /\ output' = <<>>
    /\ UNCHANGED <<thread_rng, exact_pivot, runs, returned>>
    /\ UNCHANGED <<naive, overflow_checks, target, live, bootstrap, fixed>>

\* Estimator::new(sampling_method) and DirectEstimator::new(sampling_method)
EstimatorNew(i, kind, method) ==
    /\ target = "Estimator" /\ Running /\ Next_slot(i)
    /\ estimators' = [estimators EXCEPT ![i] = Estimator_new(kind, method)]
    /\ given' = [given EXCEPT ![i] = [by |-> "new", method |-> method]]
    /\ result' = "Ok"
    /\ slot' = i
    /\ before' = estimators[i]
    /\ call' = Call("new", 0, 0, <<>>, <<>>, <<>>)
    /\ output' = <<>>
    /\ UNCHANGED <<thread_rng, exact_pivot, runs, returned>>
    /\ UNCHANGED <<naive, overflow_checks, target, live, bootstrap, fixed>>

\* estimator.set_sampling_method(other), on an estimator a conversion built
\* and that has not run yet (as in the tests of estimator.rs and direct.rs)
EstimatorSetSamplingMethod(i, other) ==
    /\ target = "Estimator" /\ Running /\ Built(i)
    /\ given[i].by = "from" /\ runs[i] = 0
    /\ estimators' = [estimators EXCEPT ![i] = set_sampling_method(estimators[i], other)]
    /\ given' = [given EXCEPT ![i] = [by |-> "set_sampling_method", method |-> other]]
    /\ result' = "Ok"
    /\ slot' = i
    /\ before' = estimators[i]
    /\ call' = Call("set_sampling_method", 0, 0, <<>>, <<>>, <<>>)
    /\ output' = <<>>
    /\ UNCHANGED <<thread_rng, exact_pivot, runs, returned>>
    /\ UNCHANGED <<naive, overflow_checks, target, live, bootstrap, fixed>>

\* estimator.entropy()
EstimatorEntropy(i) ==
    /\ target = "Estimator" /\ Running /\ Built(i)
    /\ runs[i] < MaxRuns
    /\ \E r \in {IF estimators[i].kind = "Estimator"
                  THEN Estimator_entropy(estimators[i], thread_rng, exact_pivot)
                  ELSE DirectEstimator_entropy(estimators[i], thread_rng)} :
           /\ result' = r.res
           /\ estimators' = [estimators EXCEPT ![i] = r.self]
           /\ thread_rng' = r.thread
           /\ returned' = [returned EXCEPT
                              ![i] = [res |-> r.res, value |-> r.value, out |-> r.out]]
           /\ output' = IF r.res = "Ok" THEN <<r.value>> ELSE <<>>
    /\ runs' = [runs EXCEPT ![i] = @ + 1]
    /\ slot' = i
    /\ before' = estimators[i]
    /\ call' = Call("entropy", 0, 0, <<>>, <<>>, <<>>)
    /\ UNCHANGED <<exact_pivot, given>>
    /\ UNCHANGED <<naive, overflow_checks, target, live, bootstrap, fixed>>

\* No sum of this machine's histograms and schedules overflows, so the two
\* profiles behave alike here: it runs the release one.
InitEstimator ==
    /\ overflow_checks = FALSE
    /\ target = "Estimator"
    /\ naive = NoNaive
    /\ live = FALSE
    /\ bootstrap = NoBootstrap
    /\ fixed = NoFixed
    /\ before = NoEstimator
    /\ call = NoCall
    /\ result = "Ok"
    /\ output = <<>>
    /\ thread_rng \in ThreadSeeds
    /\ exact_pivot \in BOOLEAN
    /\ estimators = [i \in Slots |-> NoEstimator]
    /\ slot = 0
    /\ given = [i \in Slots |-> NoGiven]
    /\ runs = [i \in Slots |-> 0]
    /\ returned = [i \in Slots |-> NoReturn]

NextEstimator ==
    \/ \E i \in Slots, hist \in SourceHists :
           \E kind \in Kinds(i) : EstimatorFromDistr(i, kind, hist)
    \/ \E i \in Slots, samples \in SourceSamples :
           \E kind \in Kinds(i) : EstimatorFromSamples(i, kind, samples)
    \/ \E i \in Slots, method \in Methods :
           \E kind \in Kinds(i) : EstimatorNew(i, kind, method)
    \/ \E i \in Slots, other \in Methods : EstimatorSetSamplingMethod(i, other)
    \/ \E i \in Slots : EstimatorEntropy(i)

SpecEstimator == InitEstimator /\ [][NextEstimator]_vars

-----------------------------------------------------------------------------
(* Properties of Bootstrap *)

IsBootstrap == target = "Bootstrap" /\ live

\* the histogram's total mass, as a natural number
Mass(self) == TrueSum(self.unnorm_distr)

\* C1: in every state of a Bootstrap built by Bootstrap::new and changed by
\* set_degree, set_num_groups and set_unnorm_distr, the total mass of the
\* histogram is at least 2^num_groups, and every entry of size_subsamples()
\* is at least 1.
C1_MassCoversGroups ==
    IsBootstrap =>
        /\ Mass(bootstrap) >= 2 ^ bootstrap.num_groups
        /\ LET sizes == Bootstrap_size_subsamples(bootstrap)
           IN  /\ sizes # PanicVec
               /\ \A k \in DOMAIN sizes : sizes[k] >= 1

\* C2: Bootstrap::new(hist, g, d) returns Ok exactly when g > d and
\* sum(hist) >= 2^g, LowNumGroups whenever g <= d, TooFewSamples when g > d
\* and sum(hist) < 2^g; an accepted instance stores exactly hist, g and d.
C2_NewAcceptsExactly ==
    (target = "Bootstrap" /\ call.op = "new") =>
        LET g == call.n
            d == call.d
            hist == call.distr
        IN  /\ (result = "Ok") <=> (g > d /\ TrueSum(hist) >= 2 ^ g)
            /\ (g <= d) => result = "LowNumGroups"
            /\ (g > d /\ TrueSum(hist) < 2 ^ g) => result = "TooFewSamples"
            /\ (result = "Ok") =>
                  /\ live
                  /\ bootstrap = [num_groups |-> g, degree |-> d, unnorm_distr |-> hist]

\* C4: set_degree(d) is accepted exactly when num_groups > d (otherwise
\* HighDegree), set_num_groups(g) exactly when g > degree (otherwise
\* LowNumGroups); a rejected call changes no field, an accepted one changes
\* only the field it sets, and degree < num_groups holds in every state of a
\* Bootstrap.
C4_DegreeBelowNumGroups ==
    IsBootstrap =>
        /\ bootstrap.degree < bootstrap.num_groups
        /\ (call.op = "set_degree") =>
              IF before.num_groups > call.d
              THEN result = "Ok" /\ bootstrap = [before EXCEPT !.degree = call.d]
              ELSE result = "HighDegree" /\ bootstrap = before
        /\ (call.op = "set_num_groups") =>
              IF call.n > before.degree
              THEN result = "Ok" /\ bootstrap = [before EXCEPT !.num_groups = call.n]
              ELSE result = "LowNumGroups" /\ bootstrap = before

\* C4 witness: set_num_groups(g) with g equal to the degree was rejected and
\* left the instance as it was.
C4_Witness ==
    /\ IsBootstrap
    /\ call.op = "set_num_groups"
    /\ call.n = before.degree
    /\ call.n >= 1
    /\ result = "LowNumGroups"
    /\ bootstrap = before

\* C5: for a Bootstrap of total mass N and num_groups g, size_subsamples()[i]
\* is floor(N / 2^(i+1)) and samples_rep()[i] is 2^i for i in 0..g-1, both
\* have length g, and total_samples() is 2^g - 1.
C5_ScheduleFormula ==
    (IsBootstrap /\ call.op = "schedule") =>
        LET g == bootstrap.num_groups
            N == Mass(bootstrap)
        IN  /\ result = "Ok"
            /\ output[1] = [k \in 1..g |-> N \div 2 ^ k]
            /\ output[2] = [k \in 1..g |-> 2 ^ (k - 1)]
            /\ output[3] = <<2 ^ g - 1>>

\* C10: set_unnorm_distr(h) succeeds exactly when sum(h) >= 2^num_groups, and
\* then the histogram becomes h while num_groups and degree stay; otherwise
\* it returns TooFewSamples and the instance is as it was.
C10_SetDistrAcceptsExactly ==
    (IsBootstrap /\ call.op = "set_unnorm_distr") =>
        IF TrueSum(call.distr) >= 2 ^ before.num_groups
        THEN result = "Ok" /\ bootstrap = [before EXCEPT !.unnorm_distr = call.distr]
        ELSE result = "TooFewSamples" /\ bootstrap = before

-----------------------------------------------------------------------------
(* Properties of FixedPartition *)

IsFixed == target = "FixedPartition" /\ live

\* the sum over the groups of size * repetitions, as a natural number
TrueDesired(sizes, reps) ==
    TrueSum([k \in 1..Len(sizes) |-> sizes[k] * reps[k]])

\* what C3 says FixedPartition::new returns
C3_Expected(samples, sizes, reps, d) ==
    IF Len(sizes) <= d THEN "LowNumGroups"
    ELSE IF Len(reps) > Len(sizes) THEN "TooManyRepetitions"
    ELSE IF Len(reps) < Len(sizes) THEN "TooManySubsampleSizes"
    ELSE IF \E k \in DOMAIN reps : reps[k] = 0 THEN "NullRepetition"
    ELSE IF \E k \in DOMAIN sizes : sizes[k] = 0 THEN "NullSubsampleSize"
    ELSE IF TrueDesired(sizes, reps) > Len(samples) THEN "TooFewSamples"
    ELSE "Ok"

\* C3: FixedPartition::new returns Ok exactly when len(sizes) > d, the two
\* schedule arrays have the same length, none of their entries is zero and
\* the sum of sizes[i] * reps[i] is at most len(samples); otherwise it
\* returns the error of the first violated check, in the order LowNumGroups,
\* TooManyRepetitions, TooManySubsampleSizes, NullRepetition,
\* NullSubsampleSize, TooFewSamples.
C3_NewFirstViolatedCheck ==
    (target = "FixedPartition" /\ call.op = "new") =>
        /\ result = C3_Expected(call.distr, call.sizes, call.reps, call.d)
        /\ live <=> (result = "Ok")

Sizes(obs) == [k \in DOMAIN obs |-> obs[k].size]

\* C7: for every FixedPartition accepted by FixedPartition::new,
\* naive_entropies() returns exactly total_samples() = sum(samples_rep)
\* observations, whose sizes are size_subsamples_dup(): group i's size
\* repeated samples_rep[i] times, in the order of the groups.
C7_OneObservationPerRepetition ==
    (IsFixed /\ call.op = "naive_entropies") =>
        /\ result = "Ok"
        /\ total_samples(FixedPartition_samples_rep(fixed)) = TrueSum(fixed.samples_rep)
        /\ Len(output) = TrueSum(fixed.samples_rep)
        /\ Sizes(output) = size_subsamples_dup(FixedPartition_size_subsamples(fixed),
                                               FixedPartition_samples_rep(fixed))

\* C8: on a FixedPartition, set_num_groups(g) and set_unnorm_distr(h) return
\* Immutable for every argument and leave samples, size_subsamples,
\* samples_rep and degree unchanged.
C8_ScheduleImmutable ==
    (IsFixed /\ call.op \in {"set_num_groups", "set_unnorm_distr"}) =>
        /\ result = "Immutable"
        /\ fixed = before

\* C8 witness: set_unnorm_distr was called with a histogram on an instance
\* that holds samples, and was refused.
C8_Witness ==
    /\ IsFixed
    /\ call.op = "set_unnorm_distr"
    /\ call.distr = TestHist
    /\ fixed.samples # <<>>
    /\ result = "Immutable"

\* C9 as stated: set_degree(d) succeeds only when d is below the group count
\* and not above the current degree; any other call fails with TooHighDegree
\* and leaves the degree unchanged.
C9_DegreeOnlyLowered ==
    (IsFixed /\ call.op = "set_degree") =>
        LET allowed == call.d < Len(before.size_subsamples) /\ call.d <= before.degree
        IN  /\ (result = "Ok") => allowed
            /\ ~allowed => (result = "TooHighDegree" /\ fixed.degree = before.degree)

\* C9 as amended: set_degree(d) succeeds exactly when d is below the group
\* count, whether it lowers or raises the degree, and then changes the degree
\* alone; any other call fails with TooHighDegree and changes nothing.
C9_DegreeBelowGroupCount ==
    (IsFixed /\ call.op = "set_degree") =>
        IF call.d < Len(before.size_subsamples)
        THEN result = "Ok" /\ fixed = [before EXCEPT !.degree = call.d]
        ELSE result = "TooHighDegree" /\ fixed = before

\* C9 witness: an accepted set_degree that raised the degree.
C9_Witness ==
    /\ IsFixed
    /\ call.op = "set_degree"
    /\ result = "Ok"
    /\ call.d > before.degree
    /\ fixed.degree = call.d

\* C20: for every strategy accepted by a validating constructor, in every
\* reachable state, size_subsamples() has one entry per group and is sorted
\* from greatest to smallest (stated here of FixedPartition).
C20_SizesSortedDescending ==
    IsFixed =>
        LET sizes == FixedPartition_size_subsamples(fixed)
        IN  /\ Len(sizes) = FixedPartition_num_groups(fixed)
            /\ \A i, j \in DOMAIN sizes : i < j => sizes[i] >= sizes[j]

-----------------------------------------------------------------------------
(* Properties of NaiveEstimator *)

IsNaive == target = "NaiveEstimator" /\ live

\* the histogram without its zero entries
NonZero(hist) == SelectSeq(hist, LAMBDA c : c # 0)

\* C11: NaiveEstimator::new(hist) returns NullDistribution exactly when the
\* sum of hist is 0 (the empty histogram included) and Ok otherwise; no
\* naive entropy value is computed through new on a histogram of total mass 0.
C11_NewRejectsNullMass ==
    /\ (target = "NaiveEstimator" /\ call.op = "new") =>
           IF TrueSum(call.distr) = 0
           THEN result = "NullDistribution"
           ELSE result = "Ok" /\ naive.unnorm_distr = call.distr
    /\ (IsNaive /\ call.op = "entropy" /\ call.n = 1) =>
           TrueSum(naive.unnorm_distr) # 0

\* C12: for a histogram of total mass >= 1, entropy() is a number, never
\* NaN, that the entries equal to 0 do not change, and it is 0 when a single
\* category is nonzero.
C12_ZeroCountsContributeNothing ==
    (IsNaive /\ call.op = "entropy" /\ TrueSum(naive.unnorm_distr) >= 1) =>
        /\ result = "Ok"
        /\ output[1].kind # "NaN"
        /\ output[1] = NaiveEstimator_entropy(
                           NaiveEstimator_new_unchecked(NonZero(naive.unnorm_distr))).value
        /\ (Len(NonZero(naive.unnorm_distr)) = 1) => output[1] = Zero

\* C13: for a histogram of k >= 1 equal positive counts, entropy() is ln(k),
\* whatever the common count.
C13_UniformIsLnK ==
    (IsNaive /\ call.op = "entropy") =>
        LET hist == naive.unnorm_distr
            k == Len(hist)
        IN  (k >= 1 /\ hist[1] >= 1 /\ hist = Uniform(k, hist[1])) =>
                (result = "Ok" /\ output[1] = ln(k))

-----------------------------------------------------------------------------
(* Properties of the estimators *)

IsEstimator == target = "Estimator"

\* the number of distinct subsample sizes of the schedule of a strategy
DistinctSizes(method) ==
    LET sizes == IF method.type = "Bootstrap" THEN Bootstrap_size_subsamples(method.self)
                 ELSE FixedPartition_size_subsamples(method.self)
    IN  Cardinality({sizes[k] : k \in DOMAIN sizes})

\* C14: a convenience conversion (Estimator::from / DirectEstimator::from of
\* a histogram or of raw samples, with the default num_groups = 3 and
\* degree = 2) applied to a non-empty source never panics: every failure
\* is returned as an error value.
C14_ConversionsNeverPanic ==
    (IsEstimator /\ call.op \in {"from_distr", "from_samples"} /\ call.distr # <<>>)
        => result # "Panic"

Swapped(i) == given[i].by = "set_sampling_method"

\* C15: set_sampling_method(other) returns an estimator of the same kind
\* that holds exactly `other`, and the later entropy() calls depend on
\* `other` alone: two estimators of one kind, built from whatever sources,
\* then handed strategies of identical state, return the same from their
\* n-th entropy() call.
C15_StrategyReplaced ==
    IsEstimator =>
        /\ call.op = "set_sampling_method" =>
               estimators[slot] = [kind |-> before.kind,
                                   sampling_method |-> given[slot].method]
        /\ \A i, j \in Slots :
               (/\ Swapped(i) /\ Swapped(j)
                /\ estimators[i].kind = estimators[j].kind
                /\ given[i].method = given[j].method
                /\ runs[i] >= 1 /\ runs[i] = runs[j])
                   => returned[i] = returned[j]

\* C15 witness: both estimators were handed the same strategy by
\* set_sampling_method, each has run entropy() since, and they returned the
\* same value.
C15_Witness ==
    /\ IsEstimator /\ Swapped(1) /\ Swapped(2)
    /\ estimators[1].kind = estimators[2].kind
    /\ given[1].method = given[2].method
    /\ runs[1] >= 1 /\ runs[1] = runs[2]
    /\ returned[1].res = "Ok" /\ returned[1] = returned[2]

\* C16: entropy() of an Estimator whose strategy has at most `degree`
\* distinct subsample sizes (construction having succeeded) returns
\* Err(FittingError), not a value.
C16_EqualSizesFailToFit ==
    (/\ IsEstimator /\ call.op = "entropy" /\ before.kind = "Estimator"
     /\ DistinctSizes(before.sampling_method) <= before.sampling_method.self.degree)
        => result = "FittingError"

\* an Estimator and a DirectEstimator that were handed FixedPartitions of
\* identical samples, schedule and degree, and have both run entropy()
Paired(i, j) ==
    /\ estimators[i].kind = "Estimator" /\ estimators[j].kind = "DirectEstimator"
    /\ given[i].method.type = "FixedPartition"
    /\ given[i].method = given[j].method
    /\ runs[i] >= 1 /\ runs[j] >= 1

Agree(i, j) == returned[i].res = returned[j].res /\ returned[i].value = returned[j].value

\* C17: on FixedPartitions of identical samples, schedule and degree,
\* Estimator::entropy() and DirectEstimator::entropy() return estimates
\* that agree (up to rounding, which the values of the model are free of).
C17_EstimatorsAgree ==
    IsEstimator => \A i, j \in Slots : Paired(i, j) => Agree(i, j)

\* C17 as amended: they agree when the schedule has exactly degree + 1
\* distinct sizes, both fits then passing through the mean of the naive
\* entropies of each size.
C17_AgreeWhenInterpolating ==
    IsEstimator =>
        \A i, j \in Slots :
            (Paired(i, j)
             /\ DistinctSizes(given[i].method) = given[i].method.self.degree + 1)
                => (returned[i].res = "Ok" /\ Agree(i, j))

\* C17 witness: the two estimators have run on a schedule of degree + 1
\* distinct sizes whose observations differ, and returned the same estimate.
C17_Witness ==
    /\ IsEstimator /\ Paired(1, 2)
    /\ DistinctSizes(given[1].method) = given[1].method.self.degree + 1
    /\ \E r, q \in DOMAIN returned[1].out :
           returned[1].out[r].value # returned[1].out[q].value
    /\ returned[1].res = "Ok" /\ Agree(1, 2)

\* the observations the next naive_entropies() of estimator i would return
NextObservations(i) == naive_entropies(estimators[i].sampling_method, thread_rng).out

\* C18: instances share no mutable state: a call on one estimator leaves
\* the observations every other estimator will produce as they were.
C18_InstancesIndependent ==
    [][\A i \in Slots :
          (IsEstimator /\ Built(i) /\ slot' # i)
              => NextObservations(i)' = NextObservations(i)]_vars

\* Bootstraps created with the same histogram, num_groups, degree and seed
Seeded(i, j) ==
    /\ given[i].method.type = "Bootstrap" /\ given[i].method.rng.kind = "owned"
    /\ given[i].method = given[j].method
    /\ runs[i] >= 1 /\ runs[i] = runs[j]

-----------------------------------------------------------------------------
(* Properties of the runs of FixedPartition *)

\* the instance with every sample replaced by its position in the sequence
Positioned(self) == [self EXCEPT !.samples = [k \in DOMAIN self.samples |-> k]]

\* the sets of positions the chunks of one naive_entropies() run are popped
\* from, in the order of the observations
ChunkPositions(self) ==
    LET run == naive_entropies_loop(Positioned(self), 1, 0, Positioned(self).samples, <<>>)
    IN  [k \in DOMAIN run.obs |->
            {run.obs[k].sub_sample[j] : j \in DOMAIN run.obs[k].sub_sample}]

\* C21: on every FixedPartition accepted by FixedPartition::new,
\* naive_entropies() never pops from an empty buffer: it returns, each of
\* its total_samples() chunks holds as many elements as the size of its
\* group, and the chunks of the run come from pairwise disjoint positions of
\* the sample sequence.
C21_ChunksFilledAndDisjoint ==
    (IsFixed /\ call.op = "naive_entropies") =>
        /\ result = "Ok"
        /\ Len(output) = total_samples(FixedPartition_samples_rep(fixed))
        /\ \A k \in DOMAIN output : Len(output[k].sub_sample) = output[k].size
        /\ LET chunks == ChunkPositions(fixed)
           IN  /\ Len(chunks) = Len(output)
               /\ \A k \in DOMAIN chunks : Cardinality(chunks[k]) = output[k].size
               /\ \A k, l \in DOMAIN chunks : k # l => chunks[k] \cap chunks[l] = {}

\* the chunk of observation k of a run over `sizes`: its elements counted
\* backwards from the tail of the samples, after the chunks before it
TailChunk(samples, sizes, k) ==
    LET offset == TrueSum(SubSeq(sizes, 1, k - 1))
    IN  [j \in 1..sizes[k] |-> samples[Len(samples) - offset - j + 1]]

\* C22: naive_entropies() consumes the samples from their end: the k-th
\* observation is the naive entropy of the histogram of the next `size`
\* elements counted backwards from the tail, so the result is that of the
\* last sum(size * repetitions) elements alone; on the samples
\* [0, 1, 0, 1, 0, 0, 1, 1] with sizes [4, 2] and repetitions [1, 2] every
\* value is ln 2.
C22_ConsumedFromTheEnd ==
    (IsFixed /\ call.op = "naive_entropies" /\ result = "Ok") =>
        LET sizes == size_subsamples_dup(fixed.size_subsamples, fixed.samples_rep)
            used == TrueSum(sizes)
            last == SubSeq(fixed.samples, Len(fixed.samples) - used + 1, Len(fixed.samples))
        IN  /\ Len(output) = Len(sizes)
            /\ \A k \in DOMAIN output :
                   /\ output[k].sub_sample = TailChunk(fixed.samples, sizes, k)
                   /\ output[k].value =
                          naive_entropy_value(count_dup(TailChunk(fixed.samples, sizes, k)))
            /\ FixedPartition_naive_entropies([fixed EXCEPT !.samples = last]).out = output
            /\ (fixed.samples = HalvesSamples /\ sizes = <<4, 2, 2>>) =>
                   \A k \in DOMAIN output : output[k].value = ln(2)

\* C22 witness: a run on samples with leading elements the schedule does not
\* ask for has returned several observations, one of them from a balanced
\* chunk.
C22_Witness ==
    /\ IsFixed /\ call.op = "naive_entropies" /\ result = "Ok"
    /\ Len(output) >= 2
    /\ Len(fixed.samples) > TrueDesired(fixed.size_subsamples, fixed.samples_rep)
    /\ \E k \in DOMAIN output : output[k].value = ln(2)

-----------------------------------------------------------------------------
(* Properties of the runs of Bootstrap *)

\* an entropy() call on an estimator that held a Bootstrap has returned
BootstrapRun ==
    /\ IsEstimator /\ call.op = "entropy"
    /\ before.sampling_method.type = "Bootstrap"
    /\ result # "Panic"

\* how often the category c occurs in a subsample
Occurrences(chunk, c) == Cardinality({j \in DOMAIN chunk : chunk[j] = c})

\* C23: every subsample of a Bootstrap run is drawn without replacement from
\* the full expanded histogram: it has as many elements as the size of its
\* group (and so has its histogram), no category occurs in it more often
\* than in the source histogram, and the stored histogram is the same after
\* the run as before.
C23_DrawnWithoutReplacement ==
    BootstrapRun =>
        LET self == before.sampling_method.self
            hist == self.unnorm_distr
            sizes == size_subsamples_dup(Bootstrap_size_subsamples(self),
                                         Bootstrap_samples_rep(self))
            out == returned[slot].out
        IN  /\ Len(out) = Len(sizes)
            /\ \A k \in DOMAIN out :
                   /\ out[k].size = sizes[k]
                   /\ Len(out[k].sub_sample) = sizes[k]
                   /\ TrueSum(counts_vec(out[k].unnorm_distr)) = sizes[k]
                   /\ \A j \in DOMAIN out[k].sub_sample :
                          out[k].sub_sample[j] \in 0..(Len(hist) - 1)
                   /\ \A c \in 0..(Len(hist) - 1) :
                          Occurrences(out[k].sub_sample, c) <= hist[c + 1]
            /\ estimators[slot].sampling_method.self = self

\* C23 witness: a run has drawn more elements in all than the histogram
\* holds, two subsamples of one size among them that differ.
C23_Witness ==
    /\ BootstrapRun /\ result = "Ok"
    /\ TrueSum(Sizes(returned[slot].out)) > Mass(before.sampling_method.self)
    /\ \E k, l \in DOMAIN returned[slot].out :
           /\ returned[slot].out[k].size = returned[slot].out[l].size
           /\ returned[slot].out[k].sub_sample # returned[slot].out[l].sub_sample

-----------------------------------------------------------------------------
(* Properties of the entropy() calls *)

\* one run of a strategy, made on the strategy itself: the observations, and
\* the generator the strategy draws from after the run
OneRun(method, thread) ==
    IF method.type = "Bootstrap"
    THEN Bootstrap_sample_entropy(method.self,
                                  IF method.rng.kind = "owned" THEN method.rng.state
                                  ELSE thread)
    ELSE [res |-> FixedPartition_naive_entropies(method.self).res,
          out |-> FixedPartition_naive_entropies(method.self).out, rng |-> thread]

\* the estimate fitted to the observations `out`, their sizes taken in the
\* order of the values
Refit(kind, out, degree, exact) ==
    LET sizes == Vector([r \in DOMAIN out |-> out[r].size], Len(out))
        values == Vector([r \in DOMAIN out |-> out[r].value], Len(out))
        scaled == Vector([r \in DOMAIN out |-> scale_f64(Rat(out[r].size, 1), out[r].value)],
                         Len(out))
    IN  IF kind = "Estimator" THEN fit(sizes, scaled, degree + 1, 1, exact)
        ELSE fit(sizes, values, degree + 1, 0, FALSE)

\* C24: each entropy() call of an Estimator or a DirectEstimator runs the
\* strategy's naive_entropies() exactly once (the generator the strategy
\* draws from advances by one run, and nothing else of the strategy
\* changes), and the estimate is fitted to the sizes and values of that one
\* run, paired in its order.
C24_OneRunPerEntropy ==
    [][(IsEstimator /\ call'.op = "entropy") =>
          \A i \in {slot'} :
              \A method \in {estimators[i].sampling_method} :
                  \A run \in {OneRun(method, thread_rng)} :
                      /\ returned'[i].out = run.out
                      /\ estimators'[i].sampling_method.self = method.self
                      /\ IF method.rng.kind = "owned"
                         THEN /\ estimators'[i].sampling_method.rng.state = run.rng
                              /\ thread_rng' = thread_rng
                         ELSE /\ estimators'[i].sampling_method.rng = method.rng
                              /\ thread_rng' = run.rng
                      /\ (result' # "Panic") =>
                             \A solution \in {Refit(estimators[i].kind, run.out,
                                                    method.self.degree, exact_pivot)} :
                                 /\ returned'[i].value = solution.first
                                 /\ (result' = "Ok") <=> solution.solved]_vars

\* C24 witness: a DirectEstimator on a Bootstrap with a generator of its own
\* has returned an estimate fitted to three observations, two of them of one
\* size, and the generator has moved.
C24_Witness ==
    /\ IsEstimator /\ call.op = "entropy" /\ result = "Ok"
    /\ before.kind = "DirectEstimator"
    /\ before.sampling_method.rng.kind = "owned"
    /\ estimators[slot].sampling_method.rng # before.sampling_method.rng
    /\ Sizes(returned[slot].out) = <<4, 2, 2>>

-----------------------------------------------------------------------------
(* Properties of the design matrix *)

\* s^e for an exponent e <= 1, as a fraction; 1 / 0 is +inf
Power(s, e) ==
    IF e = 1 THEN [n |-> s, d |-> 1]
    ELSE IF e = 0 THEN [n |-> 1, d |-> 1]
    ELSE [n |-> 1, d |-> s ^ (0 - e)]

\* the row (s, 1, 1 / s) of the matrix of the tests of bootstrap.rs
TestRow(s) == <<[n |-> s, d |-> 1], [n |-> 1, d |-> 1], [n |-> 1, d |-> s]>>

\* the Bootstrap of the tests of bootstrap.rs
TestBootstrap == [num_groups |-> 3, degree |-> 2, unnorm_distr |-> TestHist]

\* C25: the design matrix has total_samples() rows and degree + 1 columns,
\* and its entry at row r and column c (from 0) is s_r^(1 - c), s_r being the
\* r-th entry of size_subsamples_dup(); for the Bootstrap on
\* [1, 2, 3, 4, 5, 6] with 3 groups and degree 2 its rows are (10, 1, 1/10),
\* (5, 1, 1/5) twice and (2, 1, 1/2) four times.
C25_DesignMatrixEntries ==
    (IsBootstrap /\ call.op = "sample_entropy_matrix" /\ result = "Ok") =>
        LET s == size_subsamples_dup(Bootstrap_size_subsamples(bootstrap),
                                     Bootstrap_samples_rep(bootstrap))
            rows == total_samples(Bootstrap_samples_rep(bootstrap))
        IN  /\ Len(output) = rows
            /\ \A r \in 1..rows :
                   /\ Len(output[r]) = bootstrap.degree + 1
                   /\ \A c \in 0..bootstrap.degree : output[r][c + 1] = Power(s[r], 1 - c)
            /\ (bootstrap = TestBootstrap) =>
                   output = <<TestRow(10), TestRow(5), TestRow(5), TestRow(2), TestRow(2),
                              TestRow(2), TestRow(2)>>

\* C25 witness: the matrix of the Bootstrap of the tests has been returned,
\* its 7 rows beginning with (10, 1, 1/10).
C25_Witness ==
    /\ IsBootstrap /\ call.op = "sample_entropy_matrix" /\ result = "Ok"
    /\ bootstrap = TestBootstrap
    /\ Len(output) = 7
    /\ output[1] = TestRow(10)

-----------------------------------------------------------------------------
(* Properties of the shuffle *)

\* C26: shuffle changes only the order of the samples: their length and the
\* number of occurrences of every value are as before, size_subsamples,
\* samples_rep and degree are unchanged, and FixedPartition::new still
\* accepts the fields of the instance.
C26_ShuffleOnlyReorders ==
    (IsFixed /\ call.op = "shuffle") =>
        /\ result = "Ok"
        /\ Len(fixed.samples) = Len(before.samples)
        /\ \A j \in DOMAIN before.samples :
               Occurrences(fixed.samples, before.samples[j])
                   = Occurrences(before.samples, before.samples[j])
        /\ fixed.size_subsamples = before.size_subsamples
        /\ fixed.samples_rep = before.samples_rep
        /\ fixed.degree = before.degree
        /\ FixedPartition_new(fixed.samples, fixed.size_subsamples, fixed.samples_rep,
                              fixed.degree).res = "Ok"

\* C26 witness: a shuffle has changed the order of the samples of an
\* instance that holds more samples than its schedule asks for.
C26_Witness ==
    /\ IsFixed /\ call.op = "shuffle" /\ result = "Ok"
    /\ fixed.samples # before.samples
    /\ Len(fixed.samples) > TrueDesired(fixed.size_subsamples, fixed.samples_rep)

-----------------------------------------------------------------------------
(* Properties of the machine word *)

\* C27: FixedPartition::new compares len(samples) with the true sum of
\* size * repetitions: a schedule that passes the earlier checks and whose
\* products or sum exceed the greatest usize is rejected with TooFewSamples
\* (it is neither accepted nor a panic).
C27_OverflowingScheduleRejected ==
    (/\ target = "FixedPartition" /\ call.op = "new"
     /\ Len(call.sizes) > call.d
     /\ Len(call.reps) = Len(call.sizes)
     /\ \A k \in DOMAIN call.sizes : call.sizes[k] # 0 /\ call.reps[k] # 0
     /\ TrueDesired(call.sizes, call.reps) > MaxWord)
        => (result = "TooFewSamples" /\ ~live)

\* C28: Bootstrap::new and set_unnorm_distr compare the mass with the true
\* 2^num_groups: with num_groups at least the width of usize (and a mass
\* that is a usize) the call is rejected with TooFewSamples and changes
\* nothing (it is neither accepted nor a panic).
C28_WideShiftRejected ==
    /\ (/\ target = "Bootstrap" /\ call.op = "new"
        /\ call.n > call.d /\ call.n >= WordBits
        /\ TrueSum(call.distr) <= MaxWord)
           => (result = "TooFewSamples" /\ ~live)
    /\ (/\ IsBootstrap /\ call.op = "set_unnorm_distr"
        /\ before.num_groups >= WordBits
        /\ TrueSum(call.distr) <= MaxWord)
           => (result = "TooFewSamples" /\ bootstrap = before)

=============================================================================
